---- MODULE Spec2Model ----
(***************************************************************************)
(* chumby_card_reader_daemon.c: the card reader daemon of chumby-utils.    *)
(*                                                                         *)
(* The daemon removes the boot-time usb-storage quirk, samples the four    *)
(* card-presence GPIO lines, and then loops forever: it waits for an edge  *)
(* on any line, debounces it with 500 ms timed waits, and authorizes or    *)
(* deauthorizes the USB card reader according to the debounced presence.   *)
(*                                                                         *)
(* Strings are sequences of one-character strings.  Time advances in       *)
(* ticks; the 500 ms debounce timeout is TimeoutTicks ticks.               *)
(***************************************************************************)
EXTENDS Integers, Sequences, FiniteSets, TLC

VARIABLES
    pc,             \* position of the process in main / wait_for_card_presence_change
    exitStatus,     \* process exit status, -1 while running
    levels,         \* environment: set of presence lines that are active
    pending,        \* environment: queued edge events per line (kernel event FIFO)
    registered,     \* edge events are requested (line 237 succeeded)
    stable,         \* ticks since the last level change, saturating at TimeoutTicks
    timer,          \* ticks elapsed in the current timed wait, saturating
    changes,        \* number of level changes so far (bounded)
    debounced_presence_flags,
    bouncy_state,
    quirkFile,      \* content of /sys/module/usb_storage/parameters/quirks
    heapPrev,       \* the byte in front of the malloc'ed buffer (quirks[-1])
    quirks,         \* the buffer as a C string when remove_card_reader_quirk returns
    quirkIO,        \* what remove_card_reader_quirk did: text read, match, writes, offsets accessed
    authorized,     \* last value written to the authorized file ("none" before any write)
    hist            \* observation record: calls made, level change under observation

vars == << pc, exitStatus, levels, pending, registered, stable, timer, changes,
           debounced_presence_flags, bouncy_state, quirkFile, heapPrev, quirks,
           quirkIO, authorized, hist >>

----------------------------------------------------------------------------
(* Bounds of the model *)

MaxEntries == 3      \* entries in the quirk file
TimeoutTicks == 2    \* ticks of model time in the 500 ms timeout
MaxChanges == 3      \* level changes in one run; also bounds the queued events
SlotsUsed == 1       \* slots (from slot 0 up) whose card is inserted or removed
                     \* during the run; the other slots keep their start level

(* Program constants *)

NUM_PRESENCE_GPIOS == 4

Lines == 0 .. (NUM_PRESENCE_GPIOS - 1)

CARD_READER_QUIRK == << "0", "5", "8", "f", ":", "6", "3", "6", "6", ":", "i" >>

NUL == "NUL"
NL == "NL"
COMMA == ","

----------------------------------------------------------------------------
(* remove_card_reader_quirk: the text surgery on the quirk list *)

Min(a, b) == IF a < b THEN a ELSE b

\* strstr(hay, needle): C offset of the first occurrence, -1 for NULL
StrStr(hay, needle) ==
    LET n == Len(needle)
        hits == { i \in 0 .. (Len(hay) - n) : SubSeq(hay, i + 1, i + n) = needle }
    IN  IF hits = {} THEN -1 ELSE CHOOSE i \in hits : \A j \in hits : i <= j

\* The text in the buffer after NUL-termination (lines 154-159): a final
\* newline is overwritten by the NUL, otherwise the NUL is appended.
Terminated(content) ==
    IF content[Len(content)] = NL THEN SubSeq(content, 1, Len(content) - 1)
    ELSE content

\* bytes_read after lines 154-159: it counts the NUL in both branches
BytesRead(content) == Len(Terminated(content)) + 1

\* The memory around the buffer as a function of the C offset: offset -1 is
\* the byte in front of the allocation, offsets 0 .. bytes_read-1 the text
\* and its NUL.
Buffer(content, hp) ==
    LET s == Terminated(content)
    IN  [ k \in -1 .. Len(s) |->
            IF k = -1 THEN hp ELSE IF k = Len(s) THEN NUL ELSE s[k + 1] ]

\* memmove(dest, src, len) on that memory
MemMove(mem, dest, src, len) ==
    [ k \in DOMAIN mem |->
        IF k >= dest /\ k < dest + len THEN mem[k - dest + src] ELSE mem[k] ]

\* The C string that starts at offset 0 of the memory
RECURSIVE CStrFrom(_, _)
CStrFrom(mem, k) ==
    IF k \notin DOMAIN mem \/ mem[k] = NUL THEN << >>
    ELSE << mem[k] >> \o CStrFrom(mem, k + 1)

CStr(mem) == CStrFrom(mem, 0)

\* line 166: "pos > 0" compares the pointer pos with the null pointer, which
\* is true for every match, so *(pos - 1) is read also when pos = quirks
CommaBefore(mem, pos) == mem[pos - 1] = COMMA

\* line 169
CommaAfter(mem, pos) == mem[pos + Len(CARD_READER_QUIRK)] = COMMA

\* lines 173-184: destination, source and length of the closing shift
MovePlan(content, hp) ==
    LET mem == Buffer(content, hp)
        pos == StrStr(Terminated(content), CARD_READER_QUIRK)
        qlen == Len(CARD_READER_QUIRK)
        cb == CommaBefore(mem, pos)
        ca == CommaAfter(mem, pos)
        len0 == BytesRead(content) - pos - qlen
    IN  IF cb THEN [ dest |-> pos - 1, src |-> pos + qlen, len |-> len0,
                     comma_before |-> cb, comma_after |-> ca ]
        ELSE IF ca THEN [ dest |-> pos, src |-> pos + qlen + 1, len |-> len0 - 1,
                          comma_before |-> cb, comma_after |-> ca ]
        ELSE [ dest |-> pos, src |-> pos + qlen, len |-> len0,
               comma_before |-> cb, comma_after |-> ca ]

\* lines 161-187: the memory after the edit (unchanged when there is no match)
Edited(content, hp) ==
    LET mem == Buffer(content, hp)
        pos == StrStr(Terminated(content), CARD_READER_QUIRK)
        m == MovePlan(content, hp)
    IN  IF pos = -1 THEN mem ELSE MemMove(mem, m.dest, m.src, m.len)

\* the C offsets the edit reads and writes (lines 166, 169, 187)
Accessed(content, hp) ==
    LET pos == StrStr(Terminated(content), CARD_READER_QUIRK)
        m == MovePlan(content, hp)
    IN  IF pos = -1 THEN {}
        ELSE { pos - 1, pos + Len(CARD_READER_QUIRK) }
             \cup (m.dest .. (m.dest + m.len - 1))
             \cup (m.src .. (m.src + m.len - 1))

----------------------------------------------------------------------------
(* Inputs: quirk files as comma-separated lists of entries *)

RECURSIVE Join(_)
Join(es) ==
    IF Len(es) = 0 THEN << >>
    ELSE IF Len(es) = 1 THEN es[1]
    ELSE es[1] \o << COMMA >> \o Join(Tail(es))

EntryChoices ==
    { << "a" >>, << "b" >>, CARD_READER_QUIRK,
      CARD_READER_QUIRK \o << "u" >>, << "x" >> \o CARD_READER_QUIRK, << >> }

EntryLists == UNION { [ 1 .. n -> EntryChoices ] : n \in 1 .. MaxEntries }

\* every list, with and without the final newline the kernel prints
QuirkFiles ==
    { Join(es) : es \in EntryLists } \cup { Join(es) \o << NL >> : es \in EntryLists }

\* the files the daemon is started with in the full model
StartQuirkFiles ==
    { CARD_READER_QUIRK \o << NL >>, << >> }

\* the slots that hold a card when the daemon is started
StartLevels == { {}, { 0 }, { 1, 3 } }

\* what the byte in front of the buffer may hold: a comma or anything else
HeapBytes == { COMMA, "#" }

----------------------------------------------------------------------------
(* check_card_presence *)

RECURSIVE Pow2(_)
Pow2(n) == IF n = 0 THEN 1 ELSE 2 * Pow2(n - 1)

RECURSIVE Bitmask(_)
Bitmask(S) ==
    IF S = {} THEN 0
    ELSE LET i == CHOOSE x \in S : TRUE IN Pow2(i) + Bitmask(S \ { i })

\* lines 58-77: readOk is the outcome of gpiod_line_get_value_bulk
check_card_presence_bit0(readOk) == IF readOk /\ levels # {} THEN 1 ELSE 0
check_card_presence_failopen(readOk) == IF readOk THEN Bitmask(levels) ELSE 15
check_card_presence(readOk) == IF readOk THEN Bitmask(levels) ELSE 0

----------------------------------------------------------------------------
(* Observation record *)

Hist0 ==
    [ startLog |-> << >>,    \* the steps of the startup reconciliation, in order
      loopCalls |-> << >>,   \* calls made since the last wake-up from the idle wait
      returned |-> FALSE,    \* wait_for_card_presence_change has returned at least once
      initSample |-> -1,     \* the presence sampled at startup, -1 before
      prev |-> -1,           \* the debounced state before the last return, -1 before
      epi |-> "none",        \* the level change under observation
      epiCalls |-> << >>,    \* calls made since that change
      readFailed |-> FALSE,  \* a presence read failed since the last idle wake-up
      slow |-> TRUE,         \* all level changes so far were >= 500 ms apart
      failSite |-> "none" ]  \* where the process terminated

Quiescent == pc = "idle_wait" /\ \A l \in Lines : pending[l] = 0

EnginePcs == { "bouncy_sample", "timed_wait", "wake_sample", "timeout_sample" }

LogStartup(step) == [ hist EXCEPT !.startLog = Append(@, step) ]

LogCall(call) ==
    IF pc \in { "bind", "startup_connect", "startup_disconnect" }
    THEN [ hist EXCEPT !.startLog = Append(@, call),
                       !.epiCalls = IF hist.epi \in { "ins", "rem" }
                                    THEN Append(@, call) ELSE @ ]
    ELSE [ hist EXCEPT !.loopCalls = Append(@, call),
                       !.epiCalls = IF hist.epi \in { "ins", "rem" }
                                    THEN Append(@, call) ELSE @ ]

LogRead(readOk) == [ hist EXCEPT !.readFailed = @ \/ ~readOk ]

----------------------------------------------------------------------------
(* The process *)

\* the exit status of each place the process terminates at: the returns of
\* lines 227, 234 and 240, exit(4) at line 92, exit(5) at line 108, and the
\* abort of free() at line 198
ExitCodeCopied(site) ==
    CASE site = "open_chip" -> 1
      [] site = "get_lines" -> 2
      [] site = "request_events" -> 3
      [] site = "idle_wait" -> 4
      [] site = "timed_wait" -> 4
      [] site = "free" -> 134
ExitCode(site) ==
    CASE site = "open_chip" -> 1
      [] site = "get_lines" -> 2
      [] site = "request_events" -> 3
      [] site = "idle_wait" -> 4
      [] site = "timed_wait" -> 5
      [] site = "free" -> 134

Exit(site) ==
    /\ pc' = "exit"
    /\ exitStatus' = ExitCode(site)
    /\ hist' = [ hist EXCEPT !.failSite = site ]

\* lines 224-228
OpenChip ==
    /\ pc = "open_chip"
    /\ \/ pc' = "get_lines" /\ UNCHANGED << exitStatus, hist >>
       \/ Exit("open_chip")
    /\ UNCHANGED << levels, pending, registered, stable, timer, changes,
                    debounced_presence_flags, bouncy_state, quirkFile, heapPrev,
                    quirks, quirkIO, authorized >>

\* lines 230-235
GetLines ==
    /\ pc = "get_lines"
    /\ \/ pc' = "request_events" /\ UNCHANGED << exitStatus, hist >>
       \/ Exit("get_lines")
    /\ UNCHANGED << levels, pending, registered, stable, timer, changes,
                    debounced_presence_flags, bouncy_state, quirkFile, heapPrev,
                    quirks, quirkIO, authorized >>

\* lines 236-241: from here on every level change queues an edge event
RequestEvents ==
    /\ pc = "request_events"
    /\ \/ pc' = "remove_quirk" /\ registered' = TRUE /\ UNCHANGED << exitStatus, hist >>
       \/ Exit("request_events") /\ UNCHANGED registered
    /\ UNCHANGED << levels, pending, stable, timer, changes,
                    debounced_presence_flags, bouncy_state, quirkFile, heapPrev,
                    quirks, quirkIO, authorized >>

\* The text the search runs on: nothing when nothing was read
Text(content) == IF Len(content) = 0 THEN << >> ELSE Terminated(content)

\* line 163: the edit and the write-back run only when strstr found the entry
Found(content) == StrStr(Text(content), CARD_READER_QUIRK) # -1

\* lines 163, 190-194: the file is opened for writing only after a match,
\* and written only when that fopen succeeds
WritesBackAlways(content, openOk) == openOk
WritesBack(content, openOk) == Found(content) /\ openOk

QuirkIO0 ==
    [ read |-> FALSE, found |-> FALSE, writes |-> 0, accessed |-> {},
      orig |-> << >>, hp0 |-> "#" ]

\* lines 129-199, called at line 244
remove_card_reader_quirk ==
    /\ pc = "remove_quirk"
    /\ \/ \* fopen for reading fails (lines 143-145)
          /\ quirkIO' = [ QuirkIO0 EXCEPT !.orig = quirkFile, !.hp0 = heapPrev ]
          /\ pc' = "initial_sample"
          /\ hist' = LogStartup("quirk")
          /\ UNCHANGED << quirkFile, heapPrev, quirks, exitStatus >>
       \/ \* nothing is read (lines 149-151)
          /\ Len(quirkFile) = 0
          /\ quirkIO' = [ QuirkIO0 EXCEPT !.orig = quirkFile, !.hp0 = heapPrev ]
          /\ pc' = "initial_sample"
          /\ hist' = LogStartup("quirk")
          /\ UNCHANGED << quirkFile, heapPrev, quirks, exitStatus >>
       \/ \* the file is read and searched (lines 153-195)
          /\ Len(quirkFile) > 0
          /\ LET mem == Edited(quirkFile, heapPrev)
             IN  /\ quirks' = CStr(mem)
                 /\ heapPrev' = mem[-1]
                 /\ \E openOk \in BOOLEAN :
                        LET w == WritesBack(quirkFile, openOk)
                        IN  /\ quirkFile' = IF w THEN CStr(mem) ELSE quirkFile
                            /\ quirkIO' = [ read |-> TRUE,
                                            found |-> Found(quirkFile),
                                            writes |-> IF w THEN 1 ELSE 0,
                                            accessed |-> Accessed(quirkFile, heapPrev),
                                            orig |-> quirkFile,
                                            hp0 |-> heapPrev ]
                 /\ \/ /\ pc' = "initial_sample"
                       /\ hist' = LogStartup("quirk")
                       /\ UNCHANGED exitStatus
                    \/ \* free() of a block whose header byte was overwritten
                       /\ mem[-1] # heapPrev
                       /\ Exit("free")
    /\ UNCHANGED << levels, pending, registered, stable, timer, changes,
                    debounced_presence_flags, bouncy_state, authorized >>

\* bind_card_reader, lines 201-206, called at line 250; the result of
\* system() is discarded, so both outcomes of the write are the same step
bind_card_reader ==
    /\ pc = "bind"
    /\ pc' = "startup_connect"
    /\ \E writeOk \in BOOLEAN : hist' = LogCall("bind")
    /\ UNCHANGED << exitStatus, levels, pending, registered, stable, timer, changes,
                    debounced_presence_flags, bouncy_state, quirkFile, heapPrev,
                    quirks, quirkIO, authorized >>

\* connect_card_reader, lines 208-212, called at lines 252 and 262; the
\* write of the shell command may fail, which nothing looks at
connect_card_reader_fatal ==
    /\ pc \in { "startup_connect", "loop_connect" }
    /\ hist' = LogCall("connect")
    /\ \E writeOk \in BOOLEAN :
          IF writeOk
          THEN pc' = "idle_wait" /\ authorized' = "1" /\ UNCHANGED exitStatus
          ELSE pc' = "exit" /\ exitStatus' = 6 /\ UNCHANGED authorized
    /\ UNCHANGED << levels, pending, registered, stable, timer, changes,
                    debounced_presence_flags, bouncy_state, quirkFile, heapPrev,
                    quirks, quirkIO >>
connect_card_reader ==
    /\ pc \in { "startup_connect", "loop_connect" }
    /\ pc' = "idle_wait"
    /\ \E writeOk \in BOOLEAN : authorized' = IF writeOk THEN "1" ELSE authorized
    /\ hist' = LogCall("connect")
    /\ UNCHANGED << exitStatus, levels, pending, registered, stable, timer, changes,
                    debounced_presence_flags, bouncy_state, quirkFile, heapPrev,
                    quirks, quirkIO >>

\* disconnect_card_reader, lines 214-218, called at lines 255 and 264
disconnect_card_reader ==
    /\ pc \in { "startup_disconnect", "loop_disconnect" }
    /\ pc' = "idle_wait"
    /\ \E writeOk \in BOOLEAN : authorized' = IF writeOk THEN "0" ELSE authorized
    /\ hist' = LogCall("disconnect")
    /\ UNCHANGED << exitStatus, levels, pending, registered, stable, timer, changes,
                    debounced_presence_flags, bouncy_state, quirkFile, heapPrev,
                    quirks, quirkIO >>

\* lines 248-256: bind and connect when a card is present, else disconnect
StartupBranchNoBind(flags) == IF flags # 0 THEN "startup_connect" ELSE "startup_disconnect"
StartupBranch(flags) == IF flags # 0 THEN "bind" ELSE "startup_disconnect"

\* lines 261-265: connect when a card is present, else disconnect
DispatchAlwaysConnect(flags) == "loop_connect"
DispatchInverted(flags) == IF flags # 0 THEN "loop_disconnect" ELSE "loop_connect"
DispatchWithBind(flags) == IF flags # 0 THEN "bind" ELSE "loop_disconnect"
Dispatch(flags) == IF flags # 0 THEN "loop_connect" ELSE "loop_disconnect"

\* lines 246-256: the initial sample becomes the debounced state
InitialSample ==
    /\ pc = "initial_sample"
    /\ \E readOk \in BOOLEAN :
        /\ debounced_presence_flags' = check_card_presence(readOk)
        /\ hist' = [ LogRead(readOk) EXCEPT !.startLog = Append(@, "sample"),
                                            !.initSample = check_card_presence(readOk) ]
    /\ pc' = StartupBranch(debounced_presence_flags')
    /\ UNCHANGED << exitStatus, levels, pending, registered, stable, timer, changes,
                    bouncy_state, quirkFile, heapPrev, quirks, quirkIO, authorized >>

\* gpiod_line_event_read on every line of event_bulk (lines 96-98, 111-113):
\* one event is read from each line that has events queued
Drained == [ l \in Lines |-> IF pending[l] > 0 THEN pending[l] - 1 ELSE 0 ]

\* lines 88-98: the untimed wait returns with events, which are read out
IdleWake ==
    /\ pc = "idle_wait"
    /\ \E l \in Lines : pending[l] > 0
    /\ pending' = Drained
    /\ pc' = "bouncy_sample"
    /\ hist' = [ hist EXCEPT !.loopCalls = << >>, !.readFailed = FALSE ]
    /\ UNCHANGED << exitStatus, levels, registered, stable, timer, changes,
                    debounced_presence_flags, bouncy_state, quirkFile, heapPrev,
                    quirks, quirkIO, authorized >>

\* lines 89-93: the untimed wait fails
IdleWaitFail ==
    /\ pc = "idle_wait"
    /\ Exit("idle_wait")
    /\ UNCHANGED << levels, pending, registered, stable, timer, changes,
                    debounced_presence_flags, bouncy_state, quirkFile, heapPrev,
                    quirks, quirkIO, authorized >>

\* line 101 and line 116: the candidate is sampled and the timed wait starts
\* (again) with its full timeout
SampleBouncy ==
    /\ pc \in { "bouncy_sample", "wake_sample" }
    /\ \E readOk \in BOOLEAN :
        /\ bouncy_state' = check_card_presence(readOk)
        /\ hist' = LogRead(readOk)
    /\ timer' = 0
    /\ pc' = "timed_wait"
    /\ UNCHANGED << exitStatus, levels, pending, registered, stable, changes,
                    debounced_presence_flags, quirkFile, heapPrev, quirks, quirkIO,
                    authorized >>

\* lines 105, 109-113: an event arrives before the timeout and is read out
TimedWake ==
    /\ pc = "timed_wait"
    /\ \E l \in Lines : pending[l] > 0
    /\ pending' = Drained
    /\ pc' = "wake_sample"
    /\ UNCHANGED << exitStatus, levels, registered, stable, timer, changes,
                    debounced_presence_flags, bouncy_state, quirkFile, heapPrev,
                    quirks, quirkIO, authorized, hist >>

\* lines 105-108: the timed wait fails
TimedWaitFail ==
    /\ pc = "timed_wait"
    /\ Exit("timed_wait")
    /\ UNCHANGED << levels, pending, registered, stable, timer, changes,
                    debounced_presence_flags, bouncy_state, quirkFile, heapPrev,
                    quirks, quirkIO, authorized >>

\* lines 105, 117: the timed wait returns 0, the whole timeout has passed
\* and no line has an event queued
TimedWaitTimeout ==
    /\ pc = "timed_wait"
    /\ timer = TimeoutTicks
    /\ \A l \in Lines : pending[l] = 0
    /\ pc' = "timeout_sample"
    /\ UNCHANGED << exitStatus, levels, pending, registered, stable, timer, changes,
                    debounced_presence_flags, bouncy_state, quirkFile, heapPrev,
                    quirks, quirkIO, authorized, hist >>

\* lines 119-126 and 261: the sample at the timeout; when it equals the
\* candidate the candidate becomes the debounced state and the function
\* returns, otherwise the loop waits again with the candidate as it was
TimeoutSample ==
    /\ pc = "timeout_sample"
    /\ \E readOk \in BOOLEAN :
        LET sample == check_card_presence(readOk)
        IN  IF bouncy_state = sample
            THEN /\ debounced_presence_flags' = bouncy_state
                 /\ pc' = Dispatch(debounced_presence_flags')
                 /\ hist' = [ LogRead(readOk) EXCEPT !.returned = TRUE,
                                                     !.prev = debounced_presence_flags ]
                 /\ UNCHANGED timer
            ELSE /\ pc' = "timed_wait"
                 /\ timer' = 0
                 /\ hist' = LogRead(readOk)
                 /\ UNCHANGED debounced_presence_flags
    /\ UNCHANGED << exitStatus, levels, pending, registered, stable, changes,
                    bouncy_state, quirkFile, heapPrev, quirks, quirkIO, authorized >>

----------------------------------------------------------------------------
(* The environment *)

\* a presence line changes level; once edge events are requested the kernel
\* queues an event on that line
LevelChange ==
    /\ pc # "exit"
    /\ changes < MaxChanges
    /\ \E l \in Lines :
        /\ l < SlotsUsed
        /\ levels' = IF l \in levels THEN levels \ { l } ELSE levels \cup { l }
        /\ pending' = IF registered THEN [ pending EXCEPT ![l] = @ + 1 ] ELSE pending
        /\ hist' = [ hist EXCEPT
                       !.epi = IF Quiescent /\ levels = {} /\ l = 0 THEN "ins"
                               ELSE IF Quiescent /\ levels = { 0 } /\ l = 0 THEN "rem"
                               ELSE "void",
                       !.epiCalls = << >>,
                       !.slow = @ /\ (changes = 0 \/ stable = TimeoutTicks) ]
    /\ changes' = changes + 1
    /\ stable' = 0
    /\ UNCHANGED << pc, exitStatus, registered, timer, debounced_presence_flags,
                    bouncy_state, quirkFile, heapPrev, quirks, quirkIO, authorized >>

\* time passes
Tick ==
    /\ pc # "exit"
    /\ stable < TimeoutTicks \/ (pc = "timed_wait" /\ timer < TimeoutTicks)
    /\ stable' = Min(stable + 1, TimeoutTicks)
    /\ timer' = IF pc = "timed_wait" THEN Min(timer + 1, TimeoutTicks) ELSE timer
    /\ UNCHANGED << pc, exitStatus, levels, pending, registered, changes,
                    debounced_presence_flags, bouncy_state, quirkFile, heapPrev,
                    quirks, quirkIO, authorized, hist >>

----------------------------------------------------------------------------
(* Specifications *)

InitCommon ==
    /\ exitStatus = -1
    /\ pending = [ l \in Lines |-> 0 ]
    /\ stable = TimeoutTicks
    /\ timer = 0
    /\ changes = 0
    /\ debounced_presence_flags = 0
    /\ bouncy_state = 0
    /\ heapPrev \in HeapBytes
    /\ quirks = << >>
    /\ quirkIO = QuirkIO0
    /\ hist = Hist0

\* the process is started; a card may sit in any slot
Init ==
    /\ InitCommon
    /\ pc = "open_chip"
    /\ registered = FALSE
    /\ levels \in StartLevels
    /\ quirkFile \in StartQuirkFiles
    /\ authorized = "none"

Next ==
    \/ OpenChip
    \/ GetLines
    \/ RequestEvents
    \/ remove_card_reader_quirk
    \/ InitialSample
    \/ bind_card_reader
    \/ connect_card_reader
    \/ disconnect_card_reader
    \/ IdleWake
    \/ IdleWaitFail
    \/ SampleBouncy
    \/ TimedWake
    \/ TimedWaitFail
    \/ TimedWaitTimeout
    \/ TimeoutSample
    \/ LevelChange
    \/ Tick

Spec == Init /\ [][Next]_vars

\* The process under a fair scheduler: a step of the process that is
\* possible is taken sooner or later, and time passes.  The failures of the
\* two waits and the level changes are not forced to happen.
Progress ==
    \/ OpenChip
    \/ GetLines
    \/ RequestEvents
    \/ remove_card_reader_quirk
    \/ InitialSample
    \/ bind_card_reader
    \/ connect_card_reader
    \/ disconnect_card_reader
    \/ IdleWake
    \/ SampleBouncy
    \/ TimedWake
    \/ TimedWaitTimeout
    \/ TimeoutSample

FairSpec == Spec /\ WF_vars(Progress) /\ WF_vars(Tick)

\* the quirk editor on every bounded quirk file: the process stands at line 244
InitQuirk ==
    /\ InitCommon
    /\ pc = "remove_quirk"
    /\ registered = TRUE
    /\ levels = {}
    /\ quirkFile \in QuirkFiles
    /\ authorized = "none"

NextQuirk == remove_card_reader_quirk

SpecQuirk == InitQuirk /\ [][NextQuirk]_vars

----------------------------------------------------------------------------
(* Properties *)

\* the step at which wait_for_card_presence_change assigns
\* debounced_presence_flags (line 126) and returns
Commit == pc = "timeout_sample" /\ pc' \in { "loop_connect", "loop_disconnect" }

\* a notification restarts the timed wait with its full timeout
Restart == pc = "wake_sample" /\ pc' = "timed_wait" => timer' = 0

\* C1: in wait_for_card_presence_change the debounced state is assigned only
\* after a timed wait ran its full 500 ms without a notification and the
\* sample at the timeout equals the candidate; every notification restarts
\* the full wait; so no debounced state is emitted before the levels have
\* been stable for 500 ms.  (Stated for the passes in which every read of
\* the lines succeeds.)
C1_NoEmitBeforeStable ==
    [][ /\ Restart
        /\ Commit /\ ~hist'.readFailed
             => /\ timer = TimeoutTicks
                /\ debounced_presence_flags' = bouncy_state
                /\ stable = TimeoutTicks ]_vars

StartupOf(sample) ==
    IF sample # 0 THEN << "quirk", "sample", "bind", "connect" >>
    ELSE << "quirk", "sample", "disconnect" >>

StartupPcs ==
    { "open_chip", "get_lines", "request_events", "remove_quirk", "initial_sample",
      "bind", "startup_connect", "startup_disconnect" }

C4_StartupOrder ==
    /\ pc \notin StartupPcs \union { "exit" }
          => hist.startLog = StartupOf(hist.initSample)
    /\ hist.initSample # -1
          => /\ hist.initSample = debounced_presence_flags \/ hist.returned
             /\ Len(hist.startLog) <= Len(StartupOf(hist.initSample))
             /\ hist.startLog = SubSeq(StartupOf(hist.initSample), 1, Len(hist.startLog))
    /\ hist.initSample = -1 => hist.startLog \in { << >>, << "quirk" >> }
    /\ pc \in StartupPcs => hist.loopCalls = << >> /\ ~hist.returned

C4_Witness ==
    /\ pc = "idle_wait" /\ ~hist.returned
    /\ hist.initSample = 10
    /\ hist.startLog = << "quirk", "sample", "bind", "connect" >>
    /\ quirkIO.writes = 1

\* C5: after startup every return of wait_for_card_presence_change is
\* followed by exactly one connect (debounced state nonzero) or disconnect
\* (zero) and nothing else, also when the state did not change; bind is
\* never called after startup.
CallFor(flags) == IF flags # 0 THEN "connect" ELSE "disconnect"

C5_OneAuthorizePerReturn ==
    /\ pc = "idle_wait" /\ hist.returned
          => hist.loopCalls = << CallFor(debounced_presence_flags) >>
    /\ pc \in { "loop_connect", "loop_disconnect" }
          => hist.loopCalls = << >> /\ hist.returned
    /\ pc \in EnginePcs => hist.loopCalls = << >>
    /\ \A i \in 1 .. Len(hist.loopCalls) : hist.loopCalls[i] # "bind"
    /\ hist.initSample = 0 => \A i \in 1 .. Len(hist.startLog) : hist.startLog[i] # "bind"

C5_Witness ==
    /\ pc = "idle_wait" /\ hist.returned
    /\ hist.prev = debounced_presence_flags
    /\ hist.initSample = 0
    /\ hist.loopCalls = << "connect" >>

\* C10: every fatal failure site terminates the process with its own exit
\* status: 1, 2, 3 for the three initialisation steps, before any quirk,
\* bind or authorization write; 4 for the untimed wait, 5 for a timed wait;
\* the process does not retry, and the failing step changes neither the
\* debounced state nor the authorization.
C10_ExitCodes ==
    /\ [] /\ pc = "exit" <=> exitStatus # -1
          /\ pc = "exit" <=> hist.failSite # "none"
          /\ hist.failSite = "open_chip" <=> exitStatus = 1
          /\ hist.failSite = "get_lines" <=> exitStatus = 2
          /\ hist.failSite = "request_events" <=> exitStatus = 3
          /\ hist.failSite = "idle_wait" <=> exitStatus = 4
          /\ hist.failSite = "timed_wait" <=> exitStatus = 5
          /\ exitStatus \in { 1, 2, 3 }
                => /\ hist.startLog = << >> /\ hist.loopCalls = << >>
                   /\ ~quirkIO.read /\ quirkIO.writes = 0
                   /\ authorized = "none"
    /\ [][ /\ pc = "exit" => pc' = "exit"
           /\ pc' = "exit"
                => /\ debounced_presence_flags' = debounced_presence_flags
                   /\ authorized' = authorized
                   /\ hist'.startLog = hist.startLog
                   /\ hist'.loopCalls = hist.loopCalls
           /\ exitStatus' = 4 /\ exitStatus # 4 => pc = "idle_wait"
           /\ exitStatus' = 5 /\ exitStatus # 5 => pc = "timed_wait" ]_vars

C10_Witness ==
    /\ pc = "exit" /\ exitStatus = 5
    /\ hist.returned
    /\ debounced_presence_flags # bouncy_state
    /\ hist.loopCalls = << >>

\* C11: check_card_presence fails closed: a failed read gives 0000 whatever
\* the levels are, the process goes on and nothing else changes; a failed
\* read at the startup sample with a card present leads to
\* disconnect_card_reader.
C11_FailsClosed ==
    /\ check_card_presence(FALSE) = 0
    /\ changes = 0 /\ hist.initSample # -1 /\ ~hist.returned
          => /\ hist.initSample \in { 0, Bitmask(levels) }
             /\ hist.initSample # Bitmask(levels) => hist.readFailed
             /\ debounced_presence_flags = hist.initSample
             /\ hist.initSample = 0
                   => /\ pc \in { "startup_disconnect", "idle_wait", "exit" }
                      /\ authorized \in { "none", "0" }
                      /\ pc = "idle_wait"
                            => hist.startLog = << "quirk", "sample", "disconnect" >>
                      /\ pc = "exit" => hist.failSite = "idle_wait"
    /\ pc = "timed_wait" /\ stable > timer /\ (\A l \in Lines : pending[l] = 0)
          => /\ bouncy_state \in { 0, Bitmask(levels) }
             /\ bouncy_state # Bitmask(levels) => hist.readFailed

C11_Witness ==
    /\ pc = "idle_wait" /\ changes = 0 /\ ~hist.returned
    /\ levels = { 1, 3 }
    /\ hist.readFailed /\ hist.initSample = 0
    /\ hist.startLog = << "quirk", "sample", "disconnect" >>
    /\ authorized = "0"

\* the places at which bind, connect or disconnect is called, and the call made there
WritePcs ==
    { "bind", "startup_connect", "startup_disconnect", "loop_connect", "loop_disconnect" }

WrittenAt(p) ==
    CASE p = "bind" -> "bind"
      [] p \in { "startup_connect", "loop_connect" } -> "connect"
      [] p \in { "startup_disconnect", "loop_disconnect" } -> "disconnect"

\* a step of the process, as opposed to one of the environment
ProcessStep == changes' = changes /\ stable' = stable /\ vars' # vars

\* C12: a bind, connect or disconnect whose write fails is absorbed: the
\* call is made once and not repeated, the debounced state and the exit
\* status stay as they are, and the process goes on to where it goes after
\* a successful write: from bind to connect, from connect and disconnect to
\* the idle wait, which it leaves only by a wake-up or a wait failure.
C12_WriteFailureAbsorbed ==
    [][ /\ pc \in WritePcs /\ ProcessStep
            => /\ pc' = IF pc = "bind" THEN "startup_connect" ELSE "idle_wait"
               /\ exitStatus' = exitStatus /\ exitStatus = -1
               /\ debounced_presence_flags' = debounced_presence_flags
               /\ IF pc \in { "loop_connect", "loop_disconnect" }
                  THEN /\ hist'.loopCalls = << WrittenAt(pc) >>
                       /\ hist'.startLog = hist.startLog
                  ELSE /\ hist'.startLog = Append(hist.startLog, WrittenAt(pc))
                       /\ hist'.loopCalls = << >>
               /\ authorized' \in { authorized, IF pc = "bind" THEN authorized
                                                 ELSE IF WrittenAt(pc) = "connect" THEN "1"
                                                 ELSE "0" }
        /\ pc = "idle_wait" /\ ProcessStep
            => /\ pc' \in { "bouncy_sample", "exit" }
               /\ authorized' = authorized
               /\ hist'.startLog = hist.startLog
               /\ pc' = "exit" => hist'.loopCalls = hist.loopCalls ]_vars

\* the connect of a committed insertion failed: the file still holds the 0
\* of the disconnect before, and the process waits in the idle wait
C12_Witness ==
    /\ pc = "idle_wait" /\ hist.returned
    /\ hist.loopCalls = << "connect" >>
    /\ debounced_presence_flags # 0
    /\ authorized = "0"
    /\ exitStatus = -1

\* C14: when a timed wait times out and the sample at the timeout differs
\* from the candidate, the candidate becomes that sample (a value read from
\* the lines, other than the old candidate) and the engine waits again.
C14_TimeoutUpdatesCandidate ==
    [][ pc = "timeout_sample" /\ pc' = "timed_wait"
            => /\ timer' = 0
               /\ bouncy_state' # bouncy_state
               /\ bouncy_state' \in { 0, Bitmask(levels) } ]_vars

\* a wait returns with events and they are read out
WakeUp ==
    /\ pc \in { "idle_wait", "timed_wait" }
    /\ pc' \in { "bouncy_sample", "wake_sample" }

\* C15: at every wake-up from an edge wait, untimed or timed, the engine
\* reads out every notification queued at the wake-up, on every line, before
\* it samples: after the drain no line has one of them left, also when a
\* line had several queued.
C15_DrainsAllPending ==
    [][ WakeUp => \A l \in Lines : pending'[l] = 0 ]_vars

\* the call made last, at startup or in the loop
LastCall ==
    IF hist.loopCalls # << >> THEN hist.loopCalls[Len(hist.loopCalls)]
    ELSE IF hist.startLog # << >> THEN hist.startLog[Len(hist.startLog)]
    ELSE "none"

\* C18: whenever the process is in the untimed idle wait, the call made
\* last was connect_card_reader if the debounced state is nonzero and
\* disconnect_card_reader if it is zero, and the debounced state fits in
\* the low four bits.
C18_IdleWaitAgrees ==
    /\ pc = "idle_wait" => LastCall = CallFor(debounced_presence_flags)
    /\ debounced_presence_flags \in 0 .. (Pow2(NUM_PRESENCE_GPIOS) - 1)

C18_Witness ==
    /\ pc = "idle_wait" /\ hist.returned
    /\ hist.initSample = 11 /\ hist.prev = 11
    /\ debounced_presence_flags = 0
    /\ levels = { 1, 3 }
    /\ LastCall = "disconnect"

\* C19: every debounced state the engine commits was returned by two
\* separate samples, the candidate taken after a drain and the sample taken
\* after a timed wait that ran its full 500 ms without a notification; so
\* one failed read alone never commits 0000 while a card is present: when
\* the read at the timeout fails, a read before it in the same pass has
\* failed too.
C19_TwoSamplesPerCommit ==
    [][ /\ bouncy_state' # bouncy_state => pc \in { "bouncy_sample", "wake_sample" }
        /\ pc' \in { "bouncy_sample", "wake_sample" } /\ pc' # pc => WakeUp
        /\ pc' = "timeout_sample" /\ pc # pc'
              => pc = "timed_wait" /\ timer = TimeoutTicks
                   /\ \A l \in Lines : pending[l] = 0
        /\ Commit
              => /\ debounced_presence_flags' = bouncy_state
                 /\ debounced_presence_flags' \in { 0, Bitmask(levels) }
                 /\ debounced_presence_flags' = 0 /\ levels # {} => hist.readFailed ]_vars

\* a step in which a read of the lines fails
FailedRead ==
    \/ ~hist.readFailed /\ hist'.readFailed
    \/ pc = "initial_sample" /\ pc' # pc /\ debounced_presence_flags' # Bitmask(levels)
    \/ pc \in { "bouncy_sample", "wake_sample" } /\ pc' = "timed_wait"
          /\ bouncy_state' # Bitmask(levels)
    \/ Commit /\ debounced_presence_flags' # Bitmask(levels)
    \/ pc = "timeout_sample" /\ pc' = "timed_wait" /\ bouncy_state = Bitmask(levels)

\* C17: once the engine has been woken, if from some point on no line
\* changes level and no read of the lines fails, the engine does not stay in
\* bounce tracking forever: wait_for_card_presence_change returns.  (The
\* number of level changes of a run is bounded, so they stop in every run.)
C17_SettlingTerminates ==
    <>[][~FailedRead]_vars => <>[](pc \notin EnginePcs)

----------------------------------------------------------------------------
(* Properties of the quirk editor *)

\* the entries of a comma-separated list; the empty text has no entry
RECURSIVE Fields(_)
Fields(s) ==
    LET commas == { i \in 1 .. Len(s) : s[i] = COMMA }
    IN  IF commas = {} THEN << s >>
        ELSE LET i == CHOOSE c \in commas : \A d \in commas : c <= d
             IN  << SubSeq(s, 1, i - 1) >> \o Fields(SubSeq(s, i + 1, Len(s)))

Split(s) == IF Len(s) = 0 THEN << >> ELSE Fields(s)

RemoveAt(es, i) == SubSeq(es, 1, i - 1) \o SubSeq(es, i + 1, Len(es))

EntrySet(es) == { es[i] : i \in 1 .. Len(es) }

\* the offsets at which the quirk text occurs
Occurrences(s) ==
    { i \in 0 .. (Len(s) - Len(CARD_READER_QUIRK)) :
        SubSeq(s, i + 1, i + Len(CARD_READER_QUIRK)) = CARD_READER_QUIRK }

\* the text the editor was given and its entries
OrigText == Text(quirkIO.orig)
OrigEntries == Split(OrigText)

\* the editor has read and searched a file
EditorRan == pc # "remove_quirk" /\ quirkIO.read

\* C6: when the quirk occurs exactly once, as a whole entry, the result is
\* the remaining entries joined by single commas in their order, wherever
\* the entry stood (start, middle, end, only entry).
C6_RemovesWholeEntry ==
    EditorRan /\ Cardinality(Occurrences(OrigText)) = 1
        => \A i \in 1 .. Len(OrigEntries) :
              OrigEntries[i] = CARD_READER_QUIRK
                  => quirks = Join(RemoveAt(OrigEntries, i))

\* C7: for every quirk string, also one in which the quirk text occurs inside
\* a longer entry, the result holds every entry but the removed one,
\* unchanged and in order, and no leading, trailing or doubled comma that
\* the input did not have.  (Stated for the runs in which the byte in front
\* of the buffer is no comma.)
HasDoubledComma(s) == \E i \in 1 .. (Len(s) - 1) : s[i] = COMMA /\ s[i + 1] = COMMA
HasLeadingComma(s) == Len(s) > 0 /\ s[1] = COMMA
HasTrailingComma(s) == Len(s) > 0 /\ s[Len(s)] = COMMA

C7_OtherEntriesKept ==
    EditorRan /\ quirkIO.hp0 # COMMA
        => /\ quirkIO.found
                => \E i \in 1 .. Len(OrigEntries) : quirks = Join(RemoveAt(OrigEntries, i))
           /\ ~quirkIO.found => quirks = OrigText
           /\ HasLeadingComma(quirks) => HasLeadingComma(OrigText)
           /\ HasTrailingComma(quirks) => HasTrailingComma(OrigText)
           /\ HasDoubledComma(quirks) => HasDoubledComma(OrigText)

\* C8: round trip: when the file is a list text with the quirk inserted as
\* an entry at any position, removing the quirk gives a string with the
\* same set of entries as text.  (Stated for the runs in which the byte in
\* front of the buffer is no comma.)
C8_RoundTrip ==
    EditorRan /\ quirkIO.hp0 # COMMA
        => \A i \in 1 .. Len(OrigEntries) :
              OrigEntries[i] = CARD_READER_QUIRK
                  => EntrySet(Split(quirks))
                        = EntrySet(Split(Join(RemoveAt(OrigEntries, i))))

\* C9: without the quirk text in the file the text stays as it is and the
\* file is not written; the file is written at most once, with the whole
\* edited string, and only after the quirk was found.
C9_NoMatchNoWrite ==
    pc # "remove_quirk"
        => /\ Occurrences(OrigText) = {}
                => /\ quirkFile = quirkIO.orig
                   /\ quirkIO.writes = 0
                   /\ quirkIO.read => quirks = OrigText
           /\ quirkIO.writes <= 1
           /\ quirkIO.writes = 1 => quirkIO.found /\ quirkFile = quirks
           /\ quirkIO.writes = 0 => quirkFile = quirkIO.orig
           /\ quirkIO.found <=> quirkIO.read /\ Occurrences(OrigText) # {}

C9_Witness ==
    /\ EditorRan /\ ~quirkIO.found
    /\ Len(OrigEntries) = 3
    /\ quirkIO.orig[Len(quirkIO.orig)] = NL
    /\ quirkFile = quirkIO.orig
    /\ quirks = OrigText

\* C13: the editor removes exactly one occurrence of the quirk text when
\* there is one, the first, and none when there is none: the result has one
\* occurrence less than the text read, and zero occurrences stay zero.
C13_OneOccurrenceLess ==
    EditorRan
        => Cardinality(Occurrences(quirks))
              = IF Occurrences(OrigText) = {} THEN 0
                ELSE Cardinality(Occurrences(OrigText)) - 1

\* s without its bytes i .. j-1 (C offsets)
RegionRemoved(s, i, j) == SubSeq(s, 1, i) \o SubSeq(s, j + 1, Len(s))

\* C16: when the quirk text is found the edit removes one contiguous region:
\* the result is the text read without its bytes i .. j-1, where j - i is the
\* length of the quirk text or that length plus one comma; the bytes before
\* i and from j on are kept in value and order, and the result is a C string
\* of length len(input) - (j - i).
C16_ContiguousRemoval ==
    EditorRan /\ quirkIO.found
        => \E i \in 0 .. Len(OrigText) : \E j \in i .. Len(OrigText) :
              /\ j - i \in { Len(CARD_READER_QUIRK), Len(CARD_READER_QUIRK) + 1 }
              /\ quirks = RegionRemoved(OrigText, i, j)
              /\ Len(quirks) = Len(OrigText) - (j - i)

\* C20: every read and write of the editor (the comma-before test, the
\* comma-after test, source and destination of the closing shift) stays
\* inside the offsets 0 .. bytes_read-1 of the buffer, also when the match
\* is at offset 0.
C20_AccessesInBuffer ==
    EditorRan => quirkIO.accessed \subseteq 0 .. (BytesRead(quirkIO.orig) - 1)

====
